---- MODULE Spec2Model ----
(***************************************************************************)
(* Model of dashboard_taiga.py: the Taiga API client (TaigaAPI), the       *)
(* cached fetch cycle (fetch_and_process_data under st.cache_data) and the *)
(* metric functions.                                                       *)
(*                                                                         *)
(* Two specifications share the variables:                                 *)
(*   Spec         the fetch cycle, one action per HTTP request / step      *)
(*   SpecMetrics  the metric functions applied to bounded item collections *)
(***************************************************************************)
EXTENDS Integers, Sequences, FiniteSets, TLC

VARIABLES
    clock,          \* wall clock, in seconds
    cache,          \* st.cache_data store of fetch_and_process_data, per key
    pc,             \* position inside fetch_and_process_data / the metric run
    key,            \* (base_url, username, password, project_id) of the call
    token,          \* TaigaAPI.token
    authorization,  \* TaigaAPI.headers['Authorization'] (<<>> when not set)
    requests,       \* HTTP requests issued by the current call, in order
    served,         \* outcome of the last HTTP request of the current call
    project_data,   \* local project_data of fetch_and_process_data
    user_stories,   \* local user_stories (input collection in SpecMetrics)
    tasks,          \* local tasks        (input collection in SpecMetrics)
    issues,         \* local issues       (input collection in SpecMetrics)
    result,         \* value returned to the caller of fetch_and_process_data
    hit,            \* whether the last call was answered from the cache
    ret             \* SpecMetrics: outcome of the metric function applied last

vars == << clock, cache, pc, key, token, authorization, requests, served,
           project_data, user_stories, tasks, issues, result, hit, ret >>

-----------------------------------------------------------------------------
(* Program constants *)

TTL == 300              \* @st.cache_data(ttl=300)
WindowDays == 7         \* timedelta(days=7)
DaySeconds == 86400     \* seconds of one day (timedelta.days)
Percent == 100          \* ratio scale of bugs ratio / completion rate

(* Bounds of the model *)

MaxPages == 2           \* pages a backend collection may hold
MaxLen == 2             \* items of user_stories in SpecMetrics
MaxTasks == 1           \* items of tasks in SpecMetrics
MaxIssues == 1          \* items of issues in SpecMetrics

-----------------------------------------------------------------------------
(* Python values *)

None == "<None>"        \* Python None where a string is expected
Missing == "<missing>"  \* a key that the JSON object does not carry
Null == "<null>"        \* a JSON null
NotJson == "<not json>" \* a body response.json() cannot decode
NonString == "<int>"    \* a JSON value that is not a string

Truthy(s) == s # None /\ s # ""

(* dates: a date string of an item, by how dateutil.parser.parse treats it *)
Absent == [kind |-> "absent", t |-> 0]          \* key missing, null or ""
Malformed == [kind |-> "malformed", t |-> 0]    \* parse() raises
Naive(t) == [kind |-> "naive", t |-> t]         \* parses, no tzinfo
Aware(t) == [kind |-> "aware", t |-> t]         \* parses, with tzinfo (UTC instant t)

-----------------------------------------------------------------------------
(* HTTP outcomes. A request either gets a response (status, body) or the   *)
(* requests library raises (Timeout, ConnectionError, another exception).  *)

Response(status, body) == [kind |-> "response", status |-> status, body |-> body]
Raised(kind) == [kind |-> kind, status |-> 0, body |-> None]

TransportFailures == {Raised("timeout"), Raised("connection_error"), Raised("exception")}

(* bodies of the auth endpoint: the value of "auth_token", or its absence *)
AuthBodies == {"tok", "", Missing, NotJson}
AuthResponses ==
    {Response(s, b) : s \in {200, 401}, b \in AuthBodies} \cup TransportFailures

(* bodies of the project endpoint: a project object, an empty object *)
ProjectBodies == {"project", "{}", NotJson}
ProjectResponses ==
    {Response(s, b) : s \in {200, 403, 404, 500}, b \in ProjectBodies}
        \cup TransportFailures

(* dict.get("auth_token") on the decoded body *)
GetAuthToken(body) == IF body = Missing THEN None ELSE body

Bearer(tok) == <<"Bearer", tok>>

(* TaigaAPI.authenticate: what it returns and what it leaves in self.token *)
(* and self.headers['Authorization'], given the outcome of its one POST.   *)
authenticateLax(response) ==
    IF response.kind = "response" /\ response.status = 200 /\ response.body # NotJson
    THEN [ret |-> TRUE, token |-> GetAuthToken(response.body),
          authorization |-> Bearer(GetAuthToken(response.body))]
    ELSE [ret |-> FALSE, token |-> None, authorization |-> <<>>]

authenticate(response) ==
    IF response.kind # "response"
    THEN [ret |-> FALSE, token |-> None, authorization |-> <<>>]
    ELSE IF response.status = 200
    THEN IF response.body = NotJson
         THEN [ret |-> FALSE, token |-> None, authorization |-> <<>>]
         ELSE LET tok == GetAuthToken(response.body) IN
              IF Truthy(tok)
              THEN [ret |-> TRUE, token |-> tok, authorization |-> Bearer(tok)]
              ELSE [ret |-> FALSE, token |-> tok, authorization |-> <<>>]
    ELSE [ret |-> FALSE, token |-> None, authorization |-> <<>>]

(* TaigaAPI.get_project_data: the decoded project, or None *)
get_project_data(response) ==
    IF response.kind # "response" THEN None
    ELSE IF response.status = 200
    THEN IF response.body = NotJson THEN None ELSE response.body
    ELSE None

(* `if not project_data`: None and the empty object are both falsy *)
ProjectTruthyNotNone(p) == p # None

ProjectTruthy(p) == p # None /\ p # "{}"

-----------------------------------------------------------------------------
(* Work items: the fields of a user story / task / issue the code reads.   *)

Item(status, created, modified, finished, closed, points, type) ==
    [status |-> status,             \* status_extra_info: Missing, Null or its name
     created_date |-> created, modified_date |-> modified,
     finished_date |-> finished,
     is_closed |-> closed,          \* item.get('is_closed', False)
     total_points |-> points,       \* us.get('total_points', 0); 0 when absent
     type |-> type]                 \* issue.get('type', ''): Missing, a name, NonString

(* a backend collection is a sequence of non-empty pages; a GET without a  *)
(* `page` parameter is answered with the first page, and the header        *)
(* x-pagination-next tells whether a further page exists                   *)
FirstPage(pages) == IF pages = <<>> THEN <<>> ELSE pages[1]

BackendGet(pages) ==
    [kind |-> "response", status |-> 200, json |-> TRUE, body |-> FirstPage(pages),
     next |-> Len(pages) > 1, pages |-> pages]

(* a collection request that fails: a non-200 status, a body response.json() *)
(* cannot decode, or an exception raised by requests.get                      *)
FailedGet(kind, status) ==
    [kind |-> kind, status |-> status, json |-> FALSE, body |-> <<>>,
     next |-> FALSE, pages |-> <<>>]
CollectionFailures ==
    {FailedGet("response", 500), FailedGet("response", 200), FailedGet("exception", 0)}

RECURSIVE Concat(_)
Concat(pages) == IF pages = <<>> THEN <<>> ELSE Head(pages) \o Concat(Tail(pages))

(* TaigaAPI.get_user_stories / get_tasks / get_issues: one GET, the decoded *)
(* body on status 200, the empty list otherwise                              *)
get_collection(response) ==
    IF response.kind # "response" THEN <<>>
    ELSE IF response.status = 200
    THEN IF response.json THEN response.body ELSE <<>>
    ELSE <<>>

get_user_stories(response) == get_collection(response)
get_tasks(response) == get_collection(response)
get_issues(response) == get_collection(response)

-----------------------------------------------------------------------------
(* Metric functions. A function that can raise returns [raised, val].      *)

Ok(v) == [raised |-> FALSE, val |-> v]

EmptyDict == [x \in {} |-> 0]
DictGet(d, k, default) == IF k \in DOMAIN d THEN d[k] ELSE default
DictSet(d, k, v) == [x \in DOMAIN d \cup {k} |-> IF x = k THEN v ELSE d[x]]

(* item.get('status_extra_info', {}).get('name', 'N/A'): the default {} is *)
(* used only when the key is missing; a null value is returned as None and *)
(* None.get raises AttributeError                                          *)
StatusName(item) ==
    IF item.status = Null THEN [raised |-> TRUE, val |-> "N/A"]
    ELSE IF item.status = Missing THEN Ok("N/A")
    ELSE Ok(item.status)

RECURSIVE StatusLoop(_, _, _)
StatusLoop(items, i, d) ==
    IF i > Len(items) THEN Ok(d)
    ELSE LET status == StatusName(items[i]) IN
         IF status.raised THEN [raised |-> TRUE, val |-> d]
         ELSE StatusLoop(items, i + 1,
                         DictSet(d, status.val, DictGet(d, status.val, 0) + 1))

CountByStatus(items) == StatusLoop(items, 1, EmptyDict)

(* dateutil parse and datetime arithmetic *)
Present(d) == d.kind # "absent"
Parses(d) == d.kind \in {"naive", "aware"}

(* timedelta.days: the floor of the difference in days *)
DaysTruncated(seconds) ==
    IF seconds >= 0 THEN seconds \div DaySeconds ELSE -((-seconds) \div DaySeconds)

Days(seconds) == seconds \div DaySeconds

(* (parse(b) - parse(a)).days; parse raises on a malformed string and the  *)
(* subtraction raises TypeError between a naive and an aware datetime      *)
DaysBetween(a, b) ==
    IF Parses(a) /\ Parses(b) /\ a.kind = b.kind
    THEN Ok(Days(b.t - a.t))
    ELSE [raised |-> TRUE, val |-> 0]

RECURSIVE ElapsedLoop(_, _, _, _)
ElapsedLoop(items, i, field, acc) ==
    IF i > Len(items) THEN acc
    ELSE LET a == items[i].created_date
             b == items[i][field]
         IN IF Present(a) /\ Present(b)
            THEN LET d == DaysBetween(a, b) IN
                 IF ~d.raised /\ d.val >= 0
                 THEN ElapsedLoop(items, i + 1, field, Append(acc, d.val))
                 ELSE ElapsedLoop(items, i + 1, field, acc)
            ELSE ElapsedLoop(items, i + 1, field, acc)

calculate_cycle_times(items) == ElapsedLoop(items, 1, "finished_date", <<>>)
calculate_lead_times(items) == ElapsedLoop(items, 1, "modified_date", <<>>)

(* calculate_bugs_ratio / calculate_completion_rate return a percentage;   *)
(* it is kept exact, as numerator over denominator                         *)
Ratio(n, d) == [num |-> n, den |-> d]
Zero == Ratio(0, 1)

(* issue.get('type', '').lower(): '' when the key is missing, and          *)
(* AttributeError when the value is not a string                            *)
Lower(s) ==
    CASE s = "Bug" -> "bug"
      [] s = "Question" -> "question"
      [] s = Missing -> ""
      [] OTHER -> s

RECURSIVE BugsLoop(_, _, _)
BugsLoop(issue_list, i, bugs) ==
    IF i > Len(issue_list) THEN Ok(bugs)
    ELSE IF issue_list[i].type = NonString THEN [raised |-> TRUE, val |-> bugs]
    ELSE BugsLoop(issue_list, i + 1,
                  IF Lower(issue_list[i].type) = "bug" THEN bugs + 1 ELSE bugs)

calculate_bugs_ratioUnguarded(issue_list) ==
    LET bugs == BugsLoop(issue_list, 1, 0) IN
    IF bugs.raised \/ Len(issue_list) = 0 THEN [raised |-> TRUE, val |-> Zero]
    ELSE Ok(Ratio(bugs.val * Percent, Len(issue_list)))

calculate_bugs_ratio(issue_list) ==
    IF issue_list = <<>> THEN Ok(Zero)
    ELSE LET bugs == BugsLoop(issue_list, 1, 0) IN
         IF bugs.raised THEN [raised |-> TRUE, val |-> Zero]
         ELSE Ok(Ratio(bugs.val * Percent, Len(issue_list)))

RECURSIVE ClosedLoop(_, _, _)
ClosedLoop(items, i, n) ==
    IF i > Len(items) THEN n
    ELSE ClosedLoop(items, i + 1, IF items[i].is_closed THEN n + 1 ELSE n)

calculate_completion_rate(stories) ==
    IF stories = <<>> THEN Zero
    ELSE Ratio(ClosedLoop(stories, 1, 0) * Percent, Len(stories))

(* calculate_throughput, first loop: the parsed finished dates of the      *)
(* closed items, malformed ones skipped                                    *)
RECURSIVE CompletedLoop(_, _, _)
CompletedLoop(items, i, completed_items) ==
    IF i > Len(items) THEN completed_items
    ELSE IF items[i].is_closed /\ Present(items[i].finished_date)
              /\ Parses(items[i].finished_date)
    THEN CompletedLoop(items, i + 1, Append(completed_items, items[i].finished_date))
    ELSE CompletedLoop(items, i + 1, completed_items)

(* second loop: [date for date in completed_items if date >= one_week_ago] *)
(* one_week_ago is naive; comparing it with an aware datetime raises       *)
RECURSIVE RecentLoop(_, _, _, _)
RecentLoop(dates, i, one_week_ago, n) ==
    IF i > Len(dates) THEN Ok(n)
    ELSE IF dates[i].kind = "aware" THEN [raised |-> TRUE, val |-> n]
    ELSE RecentLoop(dates, i + 1, one_week_ago,
                    IF dates[i].t >= one_week_ago THEN n + 1 ELSE n)

calculate_throughput(stories, task_list, now) ==
    LET completed_items == CompletedLoop(stories \o task_list, 1, <<>>) IN
    IF completed_items = <<>> THEN Ok(0)
    ELSE RecentLoop(completed_items, 1, now - WindowDays * DaySeconds, 0)

RECURSIVE VelocityLoop(_, _, _, _)
VelocityLoop(stories, i, total_points, completed_points) ==
    IF i > Len(stories)
    THEN [total_points |-> total_points, completed_points |-> completed_points]
    ELSE LET points == stories[i].total_points IN
         IF points # 0
         THEN VelocityLoop(stories, i + 1, total_points + points,
                           IF stories[i].is_closed THEN completed_points + points
                           ELSE completed_points)
         ELSE VelocityLoop(stories, i + 1, total_points, completed_points)

calculate_velocity(stories) == VelocityLoop(stories, 1, 0, 0)

(* calculate_metrics: raised when any step raised (nothing is caught here) *)
calculate_metrics(project, stories, task_list, issue_list, now) ==
    LET us_status == CountByStatus(stories)
        task_status == CountByStatus(task_list)
        issue_status == CountByStatus(issue_list)
        bugs_ratio == calculate_bugs_ratio(issue_list)
        throughput == calculate_throughput(stories, task_list, now)
    IN [raised |-> us_status.raised \/ task_status.raised \/ issue_status.raised
                     \/ bugs_ratio.raised \/ throughput.raised,
        total_user_stories |-> Len(stories),
        total_tasks |-> Len(task_list),
        total_issues |-> Len(issue_list),
        user_stories_by_status |-> us_status.val,
        tasks_by_status |-> task_status.val,
        issues_by_status |-> issue_status.val,
        cycle_times |-> calculate_cycle_times(stories \o task_list),
        lead_times |-> calculate_lead_times(stories \o task_list),
        bugs_ratio |-> bugs_ratio.val,
        completion_rate |-> calculate_completion_rate(stories),
        throughput |-> throughput.val,
        velocity |-> calculate_velocity(stories)]

-----------------------------------------------------------------------------
(* The cached fetch cycle *)

StartInstant == 30 * DaySeconds         \* datetime.now() when the clock reads 0
Now == StartInstant + clock             \* datetime.now(), naive local time
Boundary == StartInstant - WindowDays * DaySeconds

NoMetrics == calculate_metrics(None, <<>>, <<>>, <<>>, 0)

(* the value fetch_and_process_data returns: None, or the record *)
NoneResult ==
    [none |-> TRUE, project_data |-> None, user_stories |-> <<>>, tasks |-> <<>>,
     issues |-> <<>>, metrics |-> NoMetrics, last_update |-> 0]

Record(project, stories, task_list, issue_list, metrics, now) ==
    [none |-> FALSE, project_data |-> project, user_stories |-> stories,
     tasks |-> task_list, issues |-> issue_list, metrics |-> metrics,
     last_update |-> now]

(* st.cache_data(ttl=300): the store keeps the value the function returned *)
(* (None included) with the time it was stored; an entry answers calls     *)
(* until it is TTL seconds old                                             *)
Keys == {"k1"}
NoEntry == [present |-> FALSE, value |-> NoneResult, stored |-> 0]
CacheLive(entry, now) == entry.present /\ now - entry.stored < TTL
CacheStore(c, k, value, now) ==
    [c EXCEPT ![k] = [present |-> TRUE, value |-> value, stored |-> now]]

(* items the backend of the cycle may hold: an open item without a         *)
(* finished date, a closed one dated as Taiga dates items (UTC, aware),    *)
(* and a closed one with naive dates whose created date does not parse     *)
OpenStory ==
    Item("New", Naive(Boundary), Naive(Boundary + DaySeconds), Absent, FALSE, 2, Missing)
ClosedStory ==
    Item("Done", Aware(Boundary), Aware(StartInstant - DaySeconds),
         Aware(StartInstant - DaySeconds), TRUE, 3, "Bug")
MalformedStory ==
    Item(Missing, Malformed, Naive(StartInstant), Naive(StartInstant - DaySeconds),
         TRUE, 0, Missing)
CycleItems == {OpenStory, ClosedStory, MalformedStory}

PagesOver(pool) == UNION { [1..n -> {<<x>> : x \in pool}] : n \in 0..MaxPages }
CollectionResponses == {BackendGet(p) : p \in PagesOver(CycleItems)} \cup CollectionFailures

NoResponse == FailedGet("none", 0)

Init ==
    /\ clock = 0
    /\ cache = [k \in Keys |-> NoEntry]
    /\ pc = "idle"
    /\ key = CHOOSE k \in Keys : TRUE
    /\ token = None
    /\ authorization = <<>>
    /\ requests = <<>>
    /\ served = NoResponse
    /\ project_data = None
    /\ user_stories = <<>>
    /\ tasks = <<>>
    /\ issues = <<>>
    /\ result = NoneResult
    /\ hit = FALSE
    /\ ret = [fn |-> "none", raised |-> FALSE, val |-> 0]

(* return from fetch_and_process_data: the decorator stores the value *)
Return(value) ==
    /\ result' = value
    /\ cache' = CacheStore(cache, key, value, clock)
    /\ pc' = "done"

(* main() calls fetch_and_process_data(base_url, username, password, id) *)
Call(k) ==
    /\ pc \in {"idle", "done"}
    /\ key' = k
    /\ requests' = <<>>
    /\ served' = NoResponse
    /\ token' = None
    /\ authorization' = <<>>
    /\ project_data' = None
    /\ user_stories' = <<>>
    /\ tasks' = <<>>
    /\ issues' = <<>>
    /\ IF CacheLive(cache[k], clock)
       THEN /\ hit' = TRUE
            /\ result' = cache[k].value
            /\ pc' = "done"
       ELSE /\ hit' = FALSE
            /\ result' = NoneResult
            /\ pc' = "auth"
    /\ UNCHANGED << clock, cache, ret >>

Authenticate(response) ==
    /\ pc = "auth"
    /\ requests' = Append(requests, "POST auth")
    /\ LET a == authenticate(response) IN
        /\ token' = a.token
        /\ authorization' = a.authorization
        /\ IF a.ret
           THEN pc' = "project" /\ UNCHANGED << result, cache >>
           ELSE Return(NoneResult)
    /\ served' = response
    /\ UNCHANGED << clock, key, project_data, user_stories, tasks, issues, hit, ret >>

GetProject(response) ==
    /\ pc = "project"
    /\ requests' = Append(requests, "GET projects")
    /\ project_data' = get_project_data(response)
    /\ IF ProjectTruthy(get_project_data(response))
       THEN pc' = "userstories" /\ UNCHANGED << result, cache >>
       ELSE Return(NoneResult)
    /\ served' = response
    /\ UNCHANGED << clock, key, token, authorization, user_stories, tasks, issues,
                    hit, ret >>

GetUserStories(response) ==
    /\ pc = "userstories"
    /\ requests' = Append(requests, "GET userstories")
    /\ served' = response
    /\ user_stories' = get_user_stories(response)
    /\ pc' = "tasks"
    /\ UNCHANGED << clock, cache, key, token, authorization, project_data, tasks,
                    issues, result, hit, ret >>

GetTasks(response) ==
    /\ pc = "tasks"
    /\ requests' = Append(requests, "GET tasks")
    /\ served' = response
    /\ tasks' = get_tasks(response)
    /\ pc' = "issues"
    /\ UNCHANGED << clock, cache, key, token, authorization, project_data,
                    user_stories, issues, result, hit, ret >>

GetIssues(response) ==
    /\ pc = "issues"
    /\ requests' = Append(requests, "GET issues")
    /\ served' = response
    /\ issues' = get_issues(response)
    /\ pc' = "metrics"
    /\ UNCHANGED << clock, cache, key, token, authorization, project_data,
                    user_stories, tasks, result, hit, ret >>

(* calculate_metrics and the return; an exception is caught and None returned *)
Process ==
    /\ pc = "metrics"
    /\ LET metrics == calculate_metrics(project_data, user_stories, tasks, issues, Now) IN
        IF metrics.raised
        THEN Return(NoneResult)
        ELSE Return(Record(project_data, user_stories, tasks, issues, metrics, Now))
    /\ served' = NoResponse
    /\ UNCHANGED << clock, key, token, authorization, requests, project_data,
                    user_stories, tasks, issues, hit, ret >>

(* time passes between two calls: half a TTL at a time, over two TTL       *)
(* windows, so that an entry is met both while live and once expired       *)
ClockStep == TTL \div 2
Horizon == 2 * TTL

Tick ==
    /\ pc \in {"idle", "done"}
    /\ clock + ClockStep <= Horizon
    /\ clock' = clock + ClockStep
    /\ UNCHANGED << cache, pc, key, token, authorization, requests, served,
                    project_data, user_stories, tasks, issues, result, hit, ret >>

Next ==
    \/ \E k \in Keys : Call(k)
    \/ \E response \in AuthResponses : Authenticate(response)
    \/ \E response \in ProjectResponses : GetProject(response)
    \/ \E response \in CollectionResponses : GetUserStories(response)
    \/ \E response \in CollectionResponses : GetTasks(response)
    \/ \E response \in CollectionResponses : GetIssues(response)
    \/ Process
    \/ Tick

Spec == Init /\ [][Next]_vars

-----------------------------------------------------------------------------
(* Properties of the fetch cycle *)

Count(seq, x) == Cardinality({i \in DOMAIN seq : seq[i] = x})
ItemRequests == {"GET userstories", "GET tasks", "GET issues"}
RequestOrder == <<"POST auth", "GET projects", "GET userstories", "GET tasks", "GET issues">>
IsPrefix(a, b) == Len(a) <= Len(b) /\ \A i \in DOMAIN a : a[i] = b[i]
Fetched(response) ==
    response.kind = "response" /\ response.status = 200 /\ response.json

(* C1: a failed fetch cycle is not cached: no call is answered from the    *)
(* cache with the failed outcome (None) of an earlier cycle; the call      *)
(* issues the upstream requests again.                                     *)
C1_FailedCycleNotCached == ~(pc = "done" /\ hit /\ result.none)

(* C2: against a backend that serves N non-empty pages of a collection,    *)
(* get_user_stories / get_tasks / get_issues returns the concatenation of  *)
(* all N pages in page order, with at most N+1 GET requests.               *)
C2_FetchReturnsAllPages ==
    /\ (pc = "tasks" /\ Fetched(served)) =>
          /\ user_stories = Concat(served.pages)
          /\ Count(requests, "GET userstories") <= Len(served.pages) + 1
    /\ (pc = "issues" /\ Fetched(served)) =>
          /\ tasks = Concat(served.pages)
          /\ Count(requests, "GET tasks") <= Len(served.pages) + 1
    /\ (pc = "metrics" /\ Fetched(served)) =>
          /\ issues = Concat(served.pages)
          /\ Count(requests, "GET issues") <= Len(served.pages) + 1

(* C3: after a successful authentication and project lookup, whatever      *)
(* combination of the three collection requests fails, the cycle issues    *)
(* all three requests and returns a record whose collections are what the  *)
(* backend returned (the empty list for a failed one).                     *)
C3_SiblingFailuresIsolated ==
    /\ (pc = "tasks") =>
          user_stories = (IF Fetched(served) THEN served.body ELSE <<>>)
    /\ (pc = "issues") =>
          tasks = (IF Fetched(served) THEN served.body ELSE <<>>)
    /\ (pc = "metrics") =>
          issues = (IF Fetched(served) THEN served.body ELSE <<>>)
    /\ (pc = "done" /\ ~hit /\ Len(requests) > 2) =>
          /\ requests = RequestOrder
          /\ ~result.none
          /\ result.user_stories = user_stories
          /\ result.tasks = tasks
          /\ result.issues = issues

(* C4: the requests of a cycle are issued in the order auth, project, user *)
(* stories, tasks, issues; an item-collection request is issued only after *)
(* authentication and the project lookup succeeded in that cycle; when     *)
(* either fails the cycle returns None and issues no item request (so no   *)
(* metrics are computed).                                                  *)
C4_ProjectLookupGatesItems ==
    /\ IsPrefix(requests, RequestOrder)
    /\ (\E i \in DOMAIN requests : requests[i] \in ItemRequests) =>
          token = "tok" /\ project_data = "project"
    /\ (pc = "metrics") => requests = RequestOrder
    /\ (pc = "done" /\ ~hit /\ (token # "tok" \/ project_data # "project")) =>
          /\ result.none
          /\ \A i \in DOMAIN requests : requests[i] \notin ItemRequests

C4_Witness ==
    /\ pc = "done" /\ ~hit
    /\ requests = <<"POST auth", "GET projects">>
    /\ token = "tok" /\ served.kind = "response" /\ served.status = 404
    /\ result.none

AuthAnswered == ~hit /\ Len(requests) = 1
AuthOkResponse ==
    /\ served.kind = "response" /\ served.status = 200
    /\ served.body \notin {"", Missing, NotJson}

(* C5: authenticate succeeds iff the auth endpoint answers 200 with a      *)
(* non-empty auth_token; for a non-200 status, a missing token or a        *)
(* transport failure it fails, token stays None and no Authorization       *)
(* header is added; it sends exactly one POST.                             *)
C5_AuthenticateOutcome ==
    /\ AuthAnswered =>
          /\ (pc = "project") <=> AuthOkResponse
          /\ (pc = "done") <=> ~AuthOkResponse
          /\ AuthOkResponse => token = served.body /\ authorization = Bearer(served.body)
          /\ ~AuthOkResponse => authorization = <<>> /\ ~Truthy(token)
          /\ (served.kind # "response" \/ served.status # 200 \/ served.body = Missing)
                => token = None
    /\ (~hit /\ pc \notin {"idle", "auth"}) => Count(requests, "POST auth") = 1

C5_Witness ==
    /\ AuthAnswered /\ pc = "done"
    /\ served.kind = "response" /\ served.status = 200 /\ served.body = Missing
    /\ token = None /\ authorization = <<>>

-----------------------------------------------------------------------------
(* The metric functions on bounded item collections *)

NoDates(status, closed, points, type) ==
    Item(status, Absent, Absent, Absent, closed, points, type)

(* closed, finished exactly WindowDays before the reference instant *)
BoundaryStory == Item("Done", Naive(Boundary), Naive(Boundary), Naive(Boundary), TRUE, 3, Missing)
(* closed, finished one second earlier, which is also before its creation *)
OutsideStory == Item("Done", Naive(Boundary), Absent, Naive(Boundary - 1), TRUE, 0, Missing)
(* closed, finished a day and a half after the reference instant *)
FutureStory ==
    Item(Missing, Naive(Boundary - 1), Naive(Boundary + DaySeconds + DaySeconds \div 2),
         Naive(StartInstant + DaySeconds + DaySeconds \div 2), TRUE, 1, Missing)
(* open, created without and finished with timezone information *)
MixedStory ==
    Item("New", Naive(Boundary), Aware(Boundary + DaySeconds),
         Aware(StartInstant - DaySeconds), FALSE, 0, Missing)
NullStatusStory == NoDates(Null, FALSE, 0, Missing)

StoryPool ==
    {OpenStory, BoundaryStory, OutsideStory, FutureStory, ClosedStory, MixedStory,
     MalformedStory, NullStatusStory}

(* not closed although it carries a recent finished date *)
OpenFinishedTask ==
    Item("Done", Naive(Boundary), Malformed, Naive(StartInstant - DaySeconds),
         FALSE, 0, Missing)
(* closed, its finished date does not parse *)
BadFinishTask ==
    Item(Missing, Naive(Boundary), Naive(Boundary + DaySeconds + DaySeconds \div 2),
         Malformed, TRUE, 0, Missing)
(* closed without a finished date, modified before it was created *)
NoFinishTask == Item("New", Naive(Boundary), Naive(Boundary - 1), Absent, TRUE, 0, Missing)

TaskPool == {OpenFinishedTask, BadFinishTask, NoFinishTask}

IssuePool ==
    {NoDates("New", FALSE, 0, "Bug"), NoDates(Missing, TRUE, 0, "Question"),
     NoDates("New", FALSE, 0, NonString)}

SeqUpTo(pool, n) == UNION { [1..k -> pool] : k \in 0..n }

InitMetrics ==
    /\ clock = 0
    /\ cache = [k \in Keys |-> NoEntry]
    /\ pc = "input"
    /\ key = CHOOSE k \in Keys : TRUE
    /\ token = None
    /\ authorization = <<>>
    /\ requests = <<>>
    /\ served = NoResponse
    /\ project_data = "project"
    /\ user_stories \in SeqUpTo(StoryPool, MaxLen)
    /\ tasks \in SeqUpTo(TaskPool, MaxTasks)
    /\ issues \in SeqUpTo(IssuePool, MaxIssues)
    /\ result = NoneResult
    /\ hit = FALSE
    /\ ret = [fn |-> "none", raised |-> FALSE, val |-> 0]

Apply(fn, raised, val) ==
    /\ pc = "input"
    /\ pc' = "applied"
    /\ ret' = [fn |-> fn, raised |-> raised, val |-> val]
    /\ UNCHANGED << clock, cache, key, token, authorization, requests, served,
                    project_data, user_stories, tasks, issues, result, hit >>

(* the three status loops of calculate_metrics *)
ApplyStatusCounts ==
    LET us == CountByStatus(user_stories)
        ts == CountByStatus(tasks)
        is == CountByStatus(issues)
    IN Apply("status_counts", us.raised \/ ts.raised \/ is.raised,
             [user_stories |-> us.val, tasks |-> ts.val, issues |-> is.val])

ApplyCycleTimes ==
    Apply("calculate_cycle_times", FALSE, calculate_cycle_times(user_stories \o tasks))

ApplyLeadTimes ==
    Apply("calculate_lead_times", FALSE, calculate_lead_times(user_stories \o tasks))

ApplyThroughput ==
    LET r == calculate_throughput(user_stories, tasks, Now) IN
    Apply("calculate_throughput", r.raised, r.val)

ApplyMetrics ==
    LET m == calculate_metrics(project_data, user_stories, tasks, issues, Now) IN
    Apply("calculate_metrics", m.raised, m)

NextMetrics ==
    \/ ApplyStatusCounts
    \/ ApplyCycleTimes
    \/ ApplyLeadTimes
    \/ ApplyThroughput
    \/ ApplyMetrics

SpecMetrics == InitMetrics /\ [][NextMetrics]_vars

-----------------------------------------------------------------------------
(* Properties of the metric functions *)

AllItems == user_stories \o tasks
Indices(seq, P(_)) == {i \in DOMAIN seq : P(seq[i])}

RECURSIVE SumOver(_, _)
SumOver(d, S) ==
    IF S = {} THEN 0
    ELSE LET x == CHOOSE y \in S : TRUE IN d[x] + SumOver(d, S \ {x})
DictTotal(d) == SumOver(d, DOMAIN d)

InWindow(d) ==
    Parses(d) /\ Now - WindowDays * DaySeconds <= d.t /\ d.t <= Now
C6_Counted(item) == item.is_closed /\ InWindow(item.finished_date)

(* C6: calculate_throughput counts exactly the closed items whose finished *)
(* date lies in the 7-day window that ends at the reference instant, with  *)
(* an inclusive lower bound; other items are never counted.                *)
C6_ThroughputCountsWindow ==
    (ret.fn = "calculate_throughput") =>
        /\ ~ret.raised
        /\ ret.val = Cardinality(Indices(AllItems, C6_Counted))

C7_Sampled(item) ==
    /\ Parses(item.created_date) /\ Parses(item.finished_date)
    /\ item.created_date.kind = item.finished_date.kind
    /\ item.finished_date.t >= item.created_date.t
WholeDays(seconds) ==
    CHOOSE n \in 0..60 : n * DaySeconds <= seconds /\ seconds < (n + 1) * DaySeconds

AbsentStatus(item) == item.status \in {Missing, Null}
C8_CountsOf(items, counts) ==
    /\ DictTotal(counts) = Len(items)
    /\ DictGet(counts, "N/A", 0) = Cardinality(Indices(items, AbsentStatus))

(* C8: a record whose status_extra_info is absent (key missing or null)    *)
(* never fails the status count: it is counted under "N/A", and the counts *)
(* of each item type sum to the number of items of that type.              *)
C8_AbsentStatusCounted ==
    (ret.fn = "status_counts") =>
        /\ ~ret.raised
        /\ C8_CountsOf(user_stories, ret.val.user_stories)
        /\ C8_CountsOf(tasks, ret.val.tasks)
        /\ C8_CountsOf(issues, ret.val.issues)

C9_CycleDatesParse(item) ==
    item.created_date.kind # "malformed" /\ item.finished_date.kind # "malformed"
C9_LeadDatesParse(item) ==
    item.created_date.kind # "malformed" /\ item.modified_date.kind # "malformed"
C9_FinishedParses(item) == item.finished_date.kind # "malformed"
C9_SomeMalformed ==
    \E i \in DOMAIN AllItems :
        \/ ~C9_CycleDatesParse(AllItems[i])
        \/ ~C9_LeadDatesParse(AllItems[i])

(* C9: a date that does not parse is skipped for its item only: the three  *)
(* date functions complete without raising and return what they return on  *)
(* the collection without the items whose date did not parse.              *)
C9_MalformedDatesSkipped ==
    C9_SomeMalformed =>
        /\ (ret.fn = "calculate_cycle_times") =>
              ret.val = calculate_cycle_times(SelectSeq(AllItems, C9_CycleDatesParse))
        /\ (ret.fn = "calculate_lead_times") =>
              ret.val = calculate_lead_times(SelectSeq(AllItems, C9_LeadDatesParse))
        /\ (ret.fn = "calculate_throughput") =>
              /\ ~ret.raised
              /\ ret.val = calculate_throughput(SelectSeq(user_stories, C9_FinishedParses),
                                                SelectSeq(tasks, C9_FinishedParses), Now).val

AllEmpty == user_stories = <<>> /\ tasks = <<>> /\ issues = <<>>

(* C10: with empty user-story, task and issue collections every metric     *)
(* function returns its zero: calculate_metrics does not raise and yields  *)
(* totals 0, empty status counts, empty cycle and lead times, bugs ratio   *)
(* 0, completion rate 0, throughput 0 and velocity 0/0.                    *)
C10_EmptyInputGivesZeros ==
    AllEmpty =>
        /\ ~ret.raised
        /\ (ret.fn = "status_counts") =>
              /\ DOMAIN ret.val.user_stories = {}
              /\ DOMAIN ret.val.tasks = {}
              /\ DOMAIN ret.val.issues = {}
        /\ (ret.fn \in {"calculate_cycle_times", "calculate_lead_times"}) => ret.val = <<>>
        /\ (ret.fn = "calculate_throughput") => ret.val = 0
        /\ (ret.fn = "calculate_metrics") =>
              /\ ret.val.total_user_stories = 0
              /\ ret.val.total_tasks = 0
              /\ ret.val.total_issues = 0
              /\ DOMAIN ret.val.user_stories_by_status = {}
              /\ DOMAIN ret.val.tasks_by_status = {}
              /\ DOMAIN ret.val.issues_by_status = {}
              /\ ret.val.cycle_times = <<>>
              /\ ret.val.lead_times = <<>>
              /\ ret.val.bugs_ratio.num = 0
              /\ ret.val.completion_rate.num = 0
              /\ ret.val.throughput = 0
              /\ ret.val.velocity = [total_points |-> 0, completed_points |-> 0]

C10_Witness ==
    /\ AllEmpty
    /\ ret.fn = "calculate_metrics"
    /\ ~ret.raised
    /\ ret.val.total_user_stories = 0

C11_Completed(item) == item.is_closed /\ Parses(item.finished_date)
C11_OtherwiseSound ==
    /\ \A i \in DOMAIN user_stories : user_stories[i].status # Null
    /\ \A i \in DOMAIN tasks : tasks[i].status # Null
    /\ \A i \in DOMAIN issues : issues[i].status # Null /\ issues[i].type # NonString

(* C11: comparing a finished date with the reference instant is always     *)
(* well defined: for closed items whose finished date parses, timezone     *)
(* aware or not, calculate_throughput returns a count and never raises,    *)
(* so a completed item never makes calculate_metrics (and with it the      *)
(* fetch cycle) fail.                                                      *)
C11_ThroughputComparisonDefined ==
    (\E i \in DOMAIN AllItems : C11_Completed(AllItems[i])) =>
        /\ (ret.fn = "calculate_throughput") => ~ret.raised /\ ret.val \in Nat
        /\ (ret.fn = "calculate_metrics" /\ C11_OtherwiseSound) => ~ret.raised

====
